---- MODULE Spec2Model ----
(***************************************************************************)
(* docker-compose-all: the run of docker_compose_all.py as a state machine *)
(* (argument parsing, root and installation checks, the directory scan,   *)
(* the command pipeline over the discovered directories, the final report *)
(* and the clean-up), and scan_dirs over bounded file systems.            *)
(*                                                                         *)
(* A subprocess is modelled by its exit status, chosen by the environment *)
(* when the call is made.  Every subprocess call, scan and skip is        *)
(* appended to the history variable trace.                                *)
(***************************************************************************)
EXTENDS Integers, Sequences, FiniteSets, TLC

VARIABLES
    entry,               \* how the program was started: "script" (_main) or "console" (setup.py entry point)
    argv,                \* the command line as given
    uid,                 \* os.getuid()
    shell_args,          \* the parsed arguments, None before parsing
    COMMAND_STOP,        \* module globals rebound by update_docker_compose_commands
    COMMAND_DOWN,
    COMMAND_BUILD,
    pc,                  \* position of the run
    fs,                  \* the file system scan_dirs walks (SpecScan)
    walk_items,          \* what os.walk has still to yield (SpecScan)
    docker_compose_dirs, \* result of scan_dirs
    commands,            \* argument of all_run_commands
    ci,                  \* index of the command loop (also of the loops of check_system and clean)
    di,                  \* index of the directory loop
    error_dirs,          \* local of all_run_commands
    error_info_list,     \* module global
    calls,               \* number of calls of all_run_commands
    trace,               \* history: subprocess calls, skips and scans, in order
    report,              \* the errors logged by the final report, in order
    version_shown,       \* VERSION_STR_LONG was printed
    exit_status          \* exit status of the process, NoStatus while it runs

vars == <<entry, argv, uid, shell_args, COMMAND_STOP, COMMAND_DOWN, COMMAND_BUILD,
          pc, fs, walk_items, docker_compose_dirs, commands, ci, di, error_dirs,
          error_info_list, calls, trace, report, version_shown, exit_status>>

(***************************************************************************)
(* Bounds                                                                  *)
(***************************************************************************)
\* directory entries (directories and symbolic links to directories, the root
\* included) of the file systems scan_dirs is checked on
MaxNodes == 3
\* the same, for the file systems scanned in a full run
MaxRunNodes == 2
\* files in a whole file system
MaxFiles == 2
\* action flags given on one command line
MaxActionFlags == 2

None == [none |-> TRUE]
NoStatus == -1
NoFS == [n |-> 0]

(***************************************************************************)
(* Program constants                                                       *)
(***************************************************************************)
DOCKER_COMPOSE_FILENAME_SET ==
    {"compose.yaml", "compose.yml", "docker-compose.yaml", "docker-compose.yml"}

DEFAULT_COMMAND_STOP == <<"docker-compose", "stop">>
DEFAULT_COMMAND_DOWN == <<"docker-compose", "down", "--rmi", "all">>
DEFAULT_COMMAND_BUILD == <<"docker-compose", "build", "--pull">>
COMMAND_UP == <<"docker-compose", "up", "-d">>
COMMAND_PS == <<"docker-compose", "ps">>
COMMAND_TOP == <<"docker-compose", "top">>
COMMAND_CLEAN_NETWORKS == <<"docker", "network", "prune", "-f">>
COMMAND_CLEAN_IMAGES == <<"docker", "image", "prune", "-f">>
COMMAND_CLEAN_BUILDER == <<"docker", "builder", "prune", "-f">>
COMMANDS_CLEAN == <<COMMAND_CLEAN_NETWORKS, COMMAND_CLEAN_IMAGES, COMMAND_CLEAN_BUILDER>>
CHECK_COMMANDS == <<(<<"docker", "--version">>), (<<"docker-compose", "--version">>)>>

\* the flags of the mutually exclusive group, in the order they are added
ActionFlags == {"restart", "stop", "down", "build", "up", "ps", "top"}

\* exit statuses a subprocess can return: zero, or not
ReturnCodes == {0, 1}

(***************************************************************************)
(* File systems.  Entry 1 is the root directory; entry i > 1 lives in the  *)
(* directory parent[i] and is a directory (link[i] = 0) or a symbolic link *)
(* to the directory link[i].  files[i] are the names of the entries of     *)
(* directory i that are not directories.  A path is the sequence of the    *)
(* entries below the root; the root's path is << >>.                       *)
(***************************************************************************)
FileNames == DOCKER_COMPOSE_FILENAME_SET \cup {"Dockerfile"}

RootPath == << >>

IsRealDir(f, i) == i = 1 \/ f.link[i] = 0

\* the directory an entry stands for
Resolve(f, i) == IF IsRealDir(f, i) THEN i ELSE f.link[i]

Children(f, d) == {i \in 2..f.n : f.parent[i] = d}

RECURSIVE SetToSeq(_)
\* a set of numbers in increasing order: the order scandir lists a directory in
SetToSeq(S) ==
    IF S = {} THEN << >>
    ELSE LET m == CHOOSE x \in S : \A y \in S : x <= y
         IN <<m>> \o SetToSeq(S \ {m})

RECURSIVE ReachFrom(_, _, _)
\* directories reached from the directories in S in 1..k steps down
ReachFrom(f, S, k) ==
    IF k = 0 THEN {}
    ELSE LET step == {Resolve(f, c) : c \in UNION {Children(f, d) : d \in S}}
         IN step \cup ReachFrom(f, step, k - 1)

\* no directory lies below itself, so that the walk ends
Acyclic(f) == \A d \in 1..f.n : d \notin ReachFrom(f, {d}, f.n)

Shapes(n) ==
    {s \in [n : {n}, parent : [1..n -> 0..n], link : [1..n -> 0..n]] :
        /\ s.parent[1] = 0 /\ s.link[1] = 0
        /\ \A i \in 2..n :
              /\ s.parent[i] \in 1..(i - 1)
              /\ s.link[s.parent[i]] = 0
              /\ s.link[i] # i
              /\ s.link[i] # 0 => s.link[s.link[i]] = 0
        /\ Acyclic(s)}

RECURSIVE Placements(_, _)
\* the sets of at most k (directory, file name) pairs
Placements(P, k) ==
    IF k = 0 THEN {{}}
    ELSE LET less == Placements(P, k - 1)
         IN less \cup {s \cup {x} : s \in less, x \in P}

FileSystemsOf(maxn) ==
    UNION {
        {[n |-> s.n, parent |-> s.parent, link |-> s.link,
          files |-> [d \in 1..s.n |-> {x[2] : x \in {y \in pl : y[1] = d}}]] :
            pl \in Placements({d \in 1..s.n : s.link[d] = 0} \X FileNames, MaxFiles)} :
        s \in UNION {Shapes(n) : n \in 1..maxn}}

FileSystems == FileSystemsOf(MaxNodes)
RunFileSystems == FileSystemsOf(MaxRunNodes)

(***************************************************************************)
(* os.walk(top, followlinks), top down: the triple of a directory, then    *)
(* the walks of its sub-directories in listing order.  A symbolic link to  *)
(* a directory is listed among the directories and is walked only under    *)
(* followlinks.                                                            *)
(***************************************************************************)
RECURSIVE walk(_, _, _, _)
walk(f, top, d, followlinks) ==
    LET kids == SetToSeq(Children(f, d))
        below[i \in 0..Len(kids)] ==
            IF i = 0 THEN << >>
            ELSE below[i - 1] \o
                 (IF followlinks \/ f.link[kids[i]] = 0
                  THEN walk(f, Append(top, kids[i]), Resolve(f, kids[i]), followlinks)
                  ELSE << >>)
    IN <<[top |-> top, dirs |-> kids, files |-> f.files[d]]>> \o below[Len(kids)]

\* os.path.abspath of a path below the root, which _parse_args made absolute
\* and normal already: the path itself
abspath(p) == p

InList(x, s) == \E i \in 1..Len(s) : s[i] = x

\* variant of ScanBody that knows one file name only, as the older script did
ScanBody_one_name(dirs, item) ==
    LET dir_path == abspath(item.top)
    IN IF "docker-compose.yml" \in item.files /\ ~InList(dir_path, dirs)
       THEN Append(dirs, dir_path)
       ELSE dirs

\* scan_dirs: the body of the loop over os.walk
ScanBody(dirs, item) ==
    LET dir_path == abspath(item.top)
    IN IF (item.files \cap DOCKER_COMPOSE_FILENAME_SET) # {} /\ ~InList(dir_path, dirs)
       THEN Append(dirs, dir_path)
       ELSE dirs

RECURSIVE ScanLoop(_, _)
ScanLoop(dirs, items) ==
    IF items = << >> THEN dirs
    ELSE ScanLoop(ScanBody(dirs, Head(items)), Tail(items))

scan_dirs(f) == ScanLoop(<< >>, walk(f, RootPath, 1, TRUE))

\* what scan_dirs returns on the file systems of a full run
RunScanResults == {scan_dirs(f) : f \in RunFileSystems}

(***************************************************************************)
(* The command line and the parsed arguments                               *)
(***************************************************************************)
Argvs ==
    [actions : {S \in SUBSET ActionFlags : Cardinality(S) <= MaxActionFlags},
     dokill : BOOLEAN, normi : BOOLEAN, nopull : BOOLEAN, doclean : BOOLEAN,
     version : BOOLEAN,
     dir_ok : BOOLEAN]      \* dir_path (or its default '.') is a directory

\* parser.parse_args() on a command line the parser accepts
parse_args(a) ==
    [restart |-> "restart" \in a.actions, stop |-> "stop" \in a.actions,
     down |-> "down" \in a.actions, build |-> "build" \in a.actions,
     up |-> "up" \in a.actions, ps |-> "ps" \in a.actions, top |-> "top" \in a.actions,
     dokill |-> a.dokill, normi |-> a.normi, nopull |-> a.nopull,
     doclean |-> a.doclean, version |-> a.version]

Event(op, cmd, dir, k, d, rc) ==
    [op |-> op, cmd |-> cmd, dir |-> dir, k |-> k, d |-> d, rc |-> rc]

\* error_info: 'Dir: %r, Command: %s, Error: %r: %r', the error being the
\* CalledProcessError of the command and its exit status
ErrorInfo(dir_path, command, rc) == [dir |-> dir_path, command |-> command, rc |-> rc]

Exit(status) == pc' = "exited" /\ exit_status' = status

Init ==
    /\ entry \in {"script", "console"}
    /\ argv \in Argvs
    /\ uid \in {0, 1000}
    /\ shell_args = None
    /\ COMMAND_STOP = DEFAULT_COMMAND_STOP
    /\ COMMAND_DOWN = DEFAULT_COMMAND_DOWN
    /\ COMMAND_BUILD = DEFAULT_COMMAND_BUILD
    /\ pc = "start"
    /\ fs = NoFS
    /\ walk_items = << >>
    /\ docker_compose_dirs = << >>
    /\ commands = << >>
    /\ ci = 0
    /\ di = 0
    /\ error_dirs = << >>
    /\ error_info_list = << >>
    /\ calls = 0
    /\ trace = << >>
    /\ report = << >>
    /\ version_shown = FALSE
    /\ exit_status = NoStatus

(***************************************************************************)
(* _main: _parse_args, then main.  The console script setup.py installs    *)
(* calls main directly.                                                    *)
(***************************************************************************)
\* _parse_args: two flags of the mutually exclusive group are a usage error
\* (exit status 2); the assertion on dir_path comes before the version flag
\* is looked at, and is raised outside the try of _main
ParseArgs ==
    /\ pc = "start" /\ entry = "script"
    /\ IF Cardinality(argv.actions) > 1
       THEN Exit(2) /\ UNCHANGED <<shell_args, version_shown>>
       ELSE /\ shell_args' = parse_args(argv)
            /\ IF ~argv.dir_ok
               THEN Exit(1) /\ UNCHANGED version_shown
               ELSE IF argv.version
                    THEN Exit(0) /\ version_shown' = TRUE
                    ELSE pc' = "main" /\ UNCHANGED <<exit_status, version_shown>>
    /\ UNCHANGED <<entry, argv, uid, COMMAND_STOP, COMMAND_DOWN, COMMAND_BUILD, fs,
                   walk_items, docker_compose_dirs, commands, ci, di, error_dirs,
                   error_info_list, calls, trace, report>>

\* entry_points: 'docker-compose-all=docker_compose_all:main'
ConsoleEntry ==
    /\ pc = "start" /\ entry = "console"
    /\ pc' = "main"
    /\ UNCHANGED <<entry, argv, uid, shell_args, COMMAND_STOP, COMMAND_DOWN,
                   COMMAND_BUILD, fs, walk_items, docker_compose_dirs, commands, ci,
                   di, error_dirs, error_info_list, calls, trace, report,
                   version_shown, exit_status>>

\* variant of update_build that reads the wrong option
update_build_by_normi(a, cur) == IF a.normi THEN <<"docker-compose", "build">> ELSE cur

update_stop(a, cur) == IF a.dokill THEN <<"docker-compose", "kill">> ELSE cur
update_down(a, cur) == IF a.normi THEN <<"docker-compose", "down">> ELSE cur
update_build(a, cur) == IF a.nopull THEN <<"docker-compose", "build">> ELSE cur

\* main up to update_docker_compose_commands: with shell_args still None the
\* read of shell_args.normi raises AttributeError, which nothing catches
UpdateCommands ==
    /\ pc = "main"
    /\ IF shell_args = None
       THEN Exit(1) /\ UNCHANGED <<COMMAND_STOP, COMMAND_DOWN, COMMAND_BUILD>>
       ELSE /\ COMMAND_DOWN' = update_down(shell_args, COMMAND_DOWN)
            /\ COMMAND_BUILD' = update_build(shell_args, COMMAND_BUILD)
            /\ COMMAND_STOP' = update_stop(shell_args, COMMAND_STOP)
            /\ pc' = "root" /\ UNCHANGED exit_status
    /\ UNCHANGED <<entry, argv, uid, shell_args, fs, walk_items, docker_compose_dirs,
                   commands, ci, di, error_dirs, error_info_list, calls, trace,
                   report, version_shown>>

\* variant of is_root without the check
is_root_anyone(u) == TRUE

is_root(u) == u = 0

\* main: the root check
RootCheck ==
    /\ pc = "root"
    /\ IF ~is_root(uid)
       THEN Exit(1) /\ UNCHANGED ci
       ELSE pc' = "check" /\ ci' = 1 /\ UNCHANGED exit_status
    /\ UNCHANGED <<entry, argv, uid, shell_args, COMMAND_STOP, COMMAND_DOWN,
                   COMMAND_BUILD, fs, walk_items, docker_compose_dirs, commands, di,
                   error_dirs, error_info_list, calls, trace, report, version_shown>>

\* check_system: one turn of its loop; any exception of check_call makes it
\* return False and main exit with status 1
CheckSystem ==
    /\ pc = "check"
    /\ \E rc \in ReturnCodes :
          /\ trace' = Append(trace, Event("check", CHECK_COMMANDS[ci], RootPath, ci, 0, rc))
          /\ IF rc # 0
             THEN Exit(1) /\ UNCHANGED ci
             ELSE IF ci < Len(CHECK_COMMANDS)
                  THEN ci' = ci + 1 /\ UNCHANGED <<pc, exit_status>>
                  ELSE pc' = "scan" /\ ci' = 0 /\ UNCHANGED exit_status
    /\ UNCHANGED <<entry, argv, uid, shell_args, COMMAND_STOP, COMMAND_DOWN,
                   COMMAND_BUILD, fs, walk_items, docker_compose_dirs, commands, di,
                   error_dirs, error_info_list, calls, report, version_shown>>

\* main: docker_compose_dirs = scan_dirs(shell_args.docker_files_dir), over the
\* file system found there
Scan ==
    /\ pc = "scan" /\ fs = NoFS
    /\ docker_compose_dirs' \in RunScanResults
    /\ trace' = Append(trace, Event("scan", << >>, RootPath, 0, 0, 0))
    /\ pc' = "dispatch"
    /\ UNCHANGED <<entry, argv, uid, shell_args, COMMAND_STOP, COMMAND_DOWN,
                   COMMAND_BUILD, fs, walk_items, commands, ci, di, error_dirs,
                   error_info_list, calls, report, version_shown, exit_status>>

\* variant of all_restart without the stop step, as the older script had it
all_restart_no_stop == <<COMMAND_DOWN, COMMAND_BUILD, COMMAND_UP, COMMAND_PS>>

all_restart == <<COMMAND_STOP, COMMAND_DOWN, COMMAND_BUILD, COMMAND_UP, COMMAND_PS>>
all_down == <<COMMAND_STOP, COMMAND_DOWN>>
all_build == <<COMMAND_BUILD>>
all_up == <<COMMAND_UP>>
all_ps == <<COMMAND_PS>>
all_top == <<COMMAND_TOP>>
all_stop == <<COMMAND_STOP>>

\* main: the if/elif chain over the action flags; NoCall when no branch is taken
NoCall == <<"no call">>
selected_commands(a) ==
    IF a.restart THEN all_restart
    ELSE IF a.down THEN all_down
    ELSE IF a.build THEN all_build
    ELSE IF a.up THEN all_up
    ELSE IF a.ps THEN all_ps
    ELSE IF a.top THEN all_top
    ELSE IF a.stop THEN all_stop
    ELSE NoCall

\* main: the dispatch, and the entry of all_run_commands (error_dirs = [])
Dispatch ==
    /\ pc = "dispatch"
    /\ LET cs == selected_commands(shell_args)
       IN IF cs = NoCall
          THEN pc' = "report" /\ UNCHANGED <<commands, ci, di, error_dirs, calls>>
          ELSE /\ commands' = cs
               /\ calls' = calls + 1
               /\ error_dirs' = << >>
               /\ ci' = 1 /\ di' = 1
               /\ pc' = IF docker_compose_dirs = << >> THEN "report" ELSE "run"
    /\ UNCHANGED <<entry, argv, uid, shell_args, COMMAND_STOP, COMMAND_DOWN,
                   COMMAND_BUILD, fs, walk_items, docker_compose_dirs,
                   error_info_list, trace, report, version_shown, exit_status>>

(***************************************************************************)
(* all_run_commands: one turn of the inner loop                            *)
(***************************************************************************)
\* variant of in_error_dirs that never skips
in_error_dirs_never(dir_path, dirs) == FALSE

\* variant of append_error_dir that forgets the directory
append_error_dir_forgotten(dirs, dir_path) == dirs

\* variant of next_index with the loops exchanged: commands inside
next_index_dir_major(c, d, ncommands, ndirs) ==
    IF c < ncommands THEN <<c + 1, d>> ELSE <<1, d + 1>>

\* dir_path in error_dirs
in_error_dirs(dir_path, dirs) == InList(dir_path, dirs)

\* error_dirs.append(dir_path)
append_error_dir(dirs, dir_path) == Append(dirs, dir_path)

\* the loop indices after the turn (ci, di): directories inside, commands
\* outside; ci beyond the commands when both loops are over
next_index(c, d, ncommands, ndirs) ==
    IF d < ndirs THEN <<c, d + 1>> ELSE <<c + 1, 1>>

Advance ==
    LET nx == next_index(ci, di, Len(commands), Len(docker_compose_dirs))
    IN /\ ci' = nx[1] /\ di' = nx[2]
       /\ pc' = IF nx[1] > Len(commands) \/ nx[2] > Len(docker_compose_dirs)
                THEN "report" ELSE "run"

RunSkip ==
    /\ pc = "run"
    /\ in_error_dirs(docker_compose_dirs[di], error_dirs)
    /\ trace' = Append(trace, Event("skip", commands[ci], docker_compose_dirs[di], ci, di, 0))
    /\ Advance
    /\ UNCHANGED <<entry, argv, uid, shell_args, COMMAND_STOP, COMMAND_DOWN,
                   COMMAND_BUILD, fs, walk_items, docker_compose_dirs, commands,
                   error_dirs, error_info_list, calls, report, version_shown,
                   exit_status>>

RunExec ==
    /\ pc = "run"
    /\ ~in_error_dirs(docker_compose_dirs[di], error_dirs)
    /\ \E rc \in ReturnCodes :
          /\ trace' = Append(trace, Event("exec", commands[ci], docker_compose_dirs[di], ci, di, rc))
          /\ IF rc # 0
             THEN /\ error_info_list' =
                        Append(error_info_list, ErrorInfo(docker_compose_dirs[di], commands[ci], rc))
                  /\ error_dirs' = append_error_dir(error_dirs, docker_compose_dirs[di])
             ELSE UNCHANGED <<error_info_list, error_dirs>>
    /\ Advance
    /\ UNCHANGED <<entry, argv, uid, shell_args, COMMAND_STOP, COMMAND_DOWN,
                   COMMAND_BUILD, fs, walk_items, docker_compose_dirs, commands,
                   calls, report, version_shown, exit_status>>

(***************************************************************************)
(* main: the final report, and clean                                       *)
(***************************************************************************)
\* variant of calls_clean that does not look at the errors
calls_clean_always(a, errors) == a.doclean

\* variant of final_status that always reports success
final_status_zero(errors) == 0

\* the errors the report logs
report_lines(errors) == errors

\* whether main calls clean()
calls_clean(a, errors) == Len(errors) = 0 /\ a.doclean

\* the exit status after the report
final_status(errors) == IF Len(errors) > 0 THEN 1 ELSE 0

Report ==
    /\ pc = "report"
    /\ report' = report_lines(error_info_list)
    /\ IF calls_clean(shell_args, error_info_list)
       THEN pc' = "clean" /\ ci' = 1 /\ UNCHANGED exit_status
       ELSE Exit(final_status(error_info_list)) /\ UNCHANGED ci
    /\ UNCHANGED <<entry, argv, uid, shell_args, COMMAND_STOP, COMMAND_DOWN,
                   COMMAND_BUILD, fs, walk_items, docker_compose_dirs, commands, di,
                   error_dirs, error_info_list, calls, trace, version_shown>>

\* clean: one turn of its loop; subprocess.call ignores the exit status
Clean ==
    /\ pc = "clean"
    /\ \E rc \in ReturnCodes :
          trace' = Append(trace, Event("clean", COMMANDS_CLEAN[ci], RootPath, ci, 0, rc))
    /\ IF ci < Len(COMMANDS_CLEAN)
       THEN ci' = ci + 1 /\ UNCHANGED <<pc, exit_status>>
       ELSE Exit(0) /\ ci' = 0
    /\ UNCHANGED <<entry, argv, uid, shell_args, COMMAND_STOP, COMMAND_DOWN,
                   COMMAND_BUILD, fs, walk_items, docker_compose_dirs, commands, di,
                   error_dirs, error_info_list, calls, report, version_shown>>

Next ==
    \/ ParseArgs
    \/ ConsoleEntry
    \/ UpdateCommands
    \/ RootCheck
    \/ CheckSystem
    \/ Scan
    \/ Dispatch
    \/ RunSkip
    \/ RunExec
    \/ Report
    \/ Clean

Spec == Init /\ [][Next]_vars

(***************************************************************************)
(* scan_dirs, one turn of its loop at a time, over the file systems of     *)
(* FileSystems                                                             *)
(***************************************************************************)
ScanArgv ==
    [actions |-> {}, dokill |-> FALSE, normi |-> FALSE, nopull |-> FALSE,
     doclean |-> FALSE, version |-> FALSE, dir_ok |-> TRUE]

\* the state main calls scan_dirs in
InitScan ==
    /\ entry = "script"
    /\ argv = ScanArgv
    /\ uid = 0
    /\ shell_args = parse_args(ScanArgv)
    /\ COMMAND_STOP = DEFAULT_COMMAND_STOP
    /\ COMMAND_DOWN = DEFAULT_COMMAND_DOWN
    /\ COMMAND_BUILD = DEFAULT_COMMAND_BUILD
    /\ pc = "scan"
    /\ fs \in FileSystems
    /\ walk_items = << >>
    /\ docker_compose_dirs = << >>
    /\ commands = << >>
    /\ ci = 0
    /\ di = 0
    /\ error_dirs = << >>
    /\ error_info_list = << >>
    /\ calls = 0
    /\ trace = <<Event("check", CHECK_COMMANDS[1], RootPath, 1, 0, 0),
                 Event("check", CHECK_COMMANDS[2], RootPath, 2, 0, 0)>>
    /\ report = << >>
    /\ version_shown = FALSE
    /\ exit_status = NoStatus

ScanStart ==
    /\ pc = "scan" /\ fs # NoFS
    /\ walk_items' = walk(fs, RootPath, 1, TRUE)
    /\ docker_compose_dirs' = << >>
    /\ pc' = "scan_loop"
    /\ UNCHANGED <<entry, argv, uid, shell_args, COMMAND_STOP, COMMAND_DOWN,
                   COMMAND_BUILD, fs, commands, ci, di, error_dirs, error_info_list,
                   calls, trace, report, version_shown, exit_status>>

ScanStep ==
    /\ pc = "scan_loop" /\ walk_items # << >>
    /\ docker_compose_dirs' = ScanBody(docker_compose_dirs, Head(walk_items))
    /\ walk_items' = Tail(walk_items)
    /\ UNCHANGED <<entry, argv, uid, shell_args, COMMAND_STOP, COMMAND_DOWN,
                   COMMAND_BUILD, pc, fs, commands, ci, di, error_dirs,
                   error_info_list, calls, trace, report, version_shown, exit_status>>

ScanReturn ==
    /\ pc = "scan_loop" /\ walk_items = << >>
    /\ pc' = "scanned"
    /\ trace' = Append(trace, Event("scan", << >>, RootPath, 0, 0, 0))
    /\ UNCHANGED <<entry, argv, uid, shell_args, COMMAND_STOP, COMMAND_DOWN,
                   COMMAND_BUILD, fs, walk_items, docker_compose_dirs, commands, ci,
                   di, error_dirs, error_info_list, calls, report, version_shown,
                   exit_status>>

NextScan == ScanStart \/ ScanStep \/ ScanReturn

SpecScan == InitScan /\ [][NextScan]_vars

(***************************************************************************)
(* Reading the history                                                     *)
(***************************************************************************)
\* a turn of the pipeline: the command was executed in the directory, or skipped
IsPipe(e) == e.op \in {"exec", "skip"}
IsClean(e) == e.op = "clean"
\* a command executed in a directory that returned a status other than zero
Failed(e) == e.op = "exec" /\ e.rc # 0

PipeEvents == SelectSeq(trace, IsPipe)
CleanEvents == SelectSeq(trace, IsClean)
SomeFailure == \E i \in 1..Len(trace) : Failed(trace[i])

\* the i-th entry of the history comes after a successful check k
CheckPassedBefore(k, i) ==
    \E h \in 1..(i - 1) : trace[h].op = "check" /\ trace[h].k = k /\ trace[h].rc = 0

\* the root check and both installation checks have passed
ChecksPassed ==
    uid = 0 /\ CheckPassedBefore(1, Len(trace) + 1) /\ CheckPassedBefore(2, Len(trace) + 1)

\* every command has been executed or skipped in every directory
PipelineOver == Len(PipeEvents) = Len(commands) * Len(docker_compose_dirs)

IsPrefix(s, t) == Len(s) <= Len(t) /\ \A i \in 1..Len(s) : s[i] = t[i]

\* the steps of each action, as the help texts name them
ExpectedPipeline(a) ==
    CASE a = "restart" -> <<"stop", "down", "build", "up", "ps">>
      [] a = "down" -> <<"stop", "down">>
      [] a = "stop" -> <<"stop">>
      [] a = "build" -> <<"build">>
      [] a = "up" -> <<"up">>
      [] a = "ps" -> <<"ps">>
      [] a = "top" -> <<"top">>

\* the step a docker-compose command carries out
StepOf(cmd) == IF cmd[2] = "kill" THEN "stop" ELSE cmd[2]

\* the command of a step under the docker-compose options of the command line
ExpectedCommand(step, a) ==
    CASE step = "stop" -> IF a.dokill THEN <<"docker-compose", "kill">>
                          ELSE <<"docker-compose", "stop">>
      [] step = "down" -> IF a.normi THEN <<"docker-compose", "down">>
                          ELSE <<"docker-compose", "down", "--rmi", "all">>
      [] step = "build" -> IF a.nopull THEN <<"docker-compose", "build">>
                           ELSE <<"docker-compose", "build", "--pull">>
      [] step = "up" -> <<"docker-compose", "up", "-d">>
      [] step = "ps" -> <<"docker-compose", "ps">>
      [] step = "top" -> <<"docker-compose", "top">>

PruneOrder ==
    <<(<<"docker", "network", "prune", "-f">>), (<<"docker", "image", "prune", "-f">>),
      (<<"docker", "builder", "prune", "-f">>)>>

\* C1: in one call of all_run_commands, command k is executed in directory d
\* if and only if every command j < k was executed in d and returned zero (a
\* turn of the pipeline is a skip otherwise), whatever happened in the other
\* directories; once the call is over every command has had its turn in every
\* directory, so that the first command ran in every discovered directory.
C1_SkipFailedDirs ==
    /\ \A i \in 1..Len(trace) :
          IsPipe(trace[i]) =>
             ((trace[i].op = "exec") <=>
                 \A j \in 1..(trace[i].k - 1) :
                    \E h \in 1..(i - 1) :
                       /\ trace[h].op = "exec" /\ trace[h].k = j
                       /\ trace[h].dir = trace[i].dir /\ trace[h].rc = 0)
    /\ (calls = 1 /\ pc # "run") =>
          \A k \in 1..Len(commands) : \A d \in 1..Len(docker_compose_dirs) :
             \E i \in 1..Len(trace) :
                IsPipe(trace[i]) /\ trace[i].k = k /\ trace[i].dir = docker_compose_dirs[d]

\* the first of two directories failed the first command and was skipped for
\* the second, which the other directory executed
C1_Witness ==
    /\ pc = "exited" /\ Len(docker_compose_dirs) = 2
    /\ \E i, j, h \in 1..Len(trace) :
          /\ Failed(trace[i]) /\ trace[i].k = 1 /\ trace[i].d = 1
          /\ trace[j].op = "skip" /\ trace[j].k = 2 /\ trace[j].d = 1
          /\ trace[h].op = "exec" /\ trace[h].k = 2 /\ trace[h].d = 2

\* C2 as stated: with --doclean the three prune commands run, in order and
\* once, if and only if no command failed in any directory during the run, and
\* only after the whole pipeline; without --doclean no prune command runs.
C2_Original ==
    /\ (pc = "exited" /\ argv.doclean) =>
          (([i \in 1..Len(CleanEvents) |-> CleanEvents[i].cmd] = PruneOrder) <=> ~SomeFailure)
    /\ IsPrefix([i \in 1..Len(CleanEvents) |-> CleanEvents[i].cmd], PruneOrder)
    /\ \A i \in 1..Len(trace) :
          IsClean(trace[i]) => argv.doclean /\ ~SomeFailure /\ PipelineOver
    /\ ~argv.doclean => CleanEvents = << >>

\* C2, amended: the same, for the runs that passed the root check and both
\* installation checks.
C2_CleanIfNoError ==
    /\ (pc = "exited" /\ argv.doclean /\ ChecksPassed) =>
          (([i \in 1..Len(CleanEvents) |-> CleanEvents[i].cmd] = PruneOrder) <=> ~SomeFailure)
    /\ IsPrefix([i \in 1..Len(CleanEvents) |-> CleanEvents[i].cmd], PruneOrder)
    /\ \A i \in 1..Len(trace) :
          IsClean(trace[i]) => argv.doclean /\ ~SomeFailure /\ PipelineOver
    /\ ~argv.doclean => CleanEvents = << >>

\* a --restart --doclean run over two directories without a failure has run
\* the three prune commands
C2_Witness ==
    /\ pc = "exited" /\ argv.doclean /\ ChecksPassed
    /\ Len(docker_compose_dirs) = 2 /\ Len(PipeEvents) = 10 /\ ~SomeFailure
    /\ Len(CleanEvents) = 3

\* C3: the turns of the pipeline come command by command, and within one
\* command in discovery order: the i-th turn is that of command (i-1) div m + 1
\* in directory (i-1) mod m + 1 of the m discovered directories.  Under
\* --restart a directory is built or brought up only after every directory has
\* had its turn of stop and of down.
C3_CommandMajor ==
    /\ \A i \in 1..Len(PipeEvents) :
          /\ PipeEvents[i].k = ((i - 1) \div Len(docker_compose_dirs)) + 1
          /\ PipeEvents[i].d = ((i - 1) % Len(docker_compose_dirs)) + 1
          /\ PipeEvents[i].dir = docker_compose_dirs[PipeEvents[i].d]
    /\ \A i \in 1..Len(trace) :
          ("restart" \in argv.actions /\ trace[i].op = "exec"
              /\ trace[i].cmd[2] \in {"build", "up"}) =>
             \A d \in 1..Len(docker_compose_dirs) :
                \A step \in {"stop", "down"} :
                   \E h \in 1..(i - 1) :
                      IsPipe(trace[h]) /\ trace[h].d = d /\ StepOf(trace[h].cmd) = step

\* --restart over two directories: the first directory is built after the
\* second went down
C3_Witness ==
    /\ "restart" \in argv.actions /\ Len(docker_compose_dirs) = 2
    /\ \E i, j \in 1..Len(trace) :
          /\ i < j
          /\ trace[i].op = "exec" /\ trace[i].d = 2 /\ StepOf(trace[i].cmd) = "down"
          /\ trace[j].op = "exec" /\ trace[j].d = 1 /\ StepOf(trace[j].cmd) = "build"

\* C4: all_run_commands is called at most once in a run, with the steps of the
\* one action flag given, in the order of the table; every turn of the pipeline
\* is the command at its place in that list; a run that gets past the scan with
\* an action flag does call it; with no action flag (or a rejected command line
\* with several) it is never called and no command has a turn in any directory.
C4_Pipelines ==
    /\ calls <= 1
    /\ calls = 1 =>
          /\ Cardinality(argv.actions) = 1
          /\ \A a \in argv.actions :
                [i \in 1..Len(commands) |-> StepOf(commands[i])] = ExpectedPipeline(a)
    /\ \A i \in 1..Len(trace) :
          IsPipe(trace[i]) => calls = 1 /\ trace[i].cmd = commands[trace[i].k]
    /\ (pc \in {"run", "report", "clean"} /\ argv.actions # {}) => calls = 1
    /\ Cardinality(argv.actions) # 1 => calls = 0 /\ PipeEvents = << >>

\* a --restart run executed all five steps in a directory
C4_Witness ==
    /\ pc = "exited" /\ argv.actions = {"restart"}
    /\ \E i \in 1..Len(trace) : trace[i].op = "exec" /\ trace[i].k = 5

\* the errors the history holds, in the order they occurred
FailureInfos ==
    LET f == SelectSeq(trace, Failed)
    IN [i \in 1..Len(f) |-> ErrorInfo(f[i].dir, f[i].cmd, f[i].rc)]

\* C5: a run that passed the root check and the installation checks exits
\* with status 1 if a command failed in a directory and with status 0 if none
\* did (a failing prune command changes nothing); the report comes with the
\* exit, after every turn of the pipeline, and lists the failures in the order
\* they occurred.
C5_ExitStatus ==
    /\ (pc = "exited" /\ ChecksPassed) =>
          /\ exit_status = (IF SomeFailure THEN 1 ELSE 0)
          /\ report = FailureInfos
    /\ report # << >> => pc = "exited" /\ PipelineOver

\* two directories failed, at different commands
C5_Witness ==
    /\ pc = "exited" /\ ChecksPassed /\ exit_status = 1
    /\ Len(report) = 2 /\ report[1].command # report[2].command

\* C6: every turn of the pipeline is the command of its step under the
\* options given: kill for stop under --dokill, down without --rmi all under
\* --normi, build without --pull under --nopull, and the default otherwise; the
\* prune commands are the same under every option, and so is the number of
\* steps of the pipeline.
C6_OptionFlags ==
    /\ \A i \in 1..Len(trace) :
          IsPipe(trace[i]) =>
             \A a \in argv.actions :
                trace[i].cmd = ExpectedCommand(ExpectedPipeline(a)[trace[i].k], argv)
    /\ \A i \in 1..Len(trace) :
          IsClean(trace[i]) => trace[i].cmd = PruneOrder[trace[i].k]
    /\ calls = 1 => \A a \in argv.actions : Len(commands) = Len(ExpectedPipeline(a))

\* --restart --dokill --normi: kill and a plain down were run, and build
\* still pulled
C6_Witness ==
    /\ argv.dokill /\ argv.normi /\ ~argv.nopull
    /\ \E i, j, h \in 1..Len(trace) :
          /\ trace[i].op = "exec" /\ trace[i].cmd = <<"docker-compose", "kill">>
          /\ trace[j].op = "exec" /\ trace[j].cmd = <<"docker-compose", "down">>
          /\ trace[h].op = "exec" /\ trace[h].cmd = <<"docker-compose", "build", "--pull">>

C8_VersionExits ==
    argv.version =>
       /\ trace = << >>
       /\ pc = "exited" => exit_status = 0 /\ version_shown

(***************************************************************************)
(* scan_dirs against the file system                                       *)
(***************************************************************************)
RECURSIVE DirAt(_, _)
\* the directory a path leads to, symbolic links followed; 0 when there is none
DirAt(f, p) ==
    IF p = << >> THEN 1
    ELSE LET d == DirAt(f, SubSeq(p, 1, Len(p) - 1))
         IN IF d # 0 /\ p[Len(p)] \in Children(f, d) THEN Resolve(f, p[Len(p)]) ELSE 0

\* the paths of the directories reachable from the root
Paths(f) ==
    {p \in UNION {[1..l -> 2..f.n] : l \in 0..(f.n - 1)} : DirAt(f, p) # 0}

\* the directory holds a file of one of the four names
HoldsComposeFile(f, p) ==
    \E name \in {"compose.yaml", "compose.yml", "docker-compose.yaml", "docker-compose.yml"} :
       name \in f.files[DirAt(f, p)]

\* the walk visits p before q: a directory before what lies below it, and the
\* entries of one directory in listing order
VisitedBefore(p, q) ==
    \/ Len(p) < Len(q) /\ \A i \in 1..Len(p) : p[i] = q[i]
    \/ \E i \in 1..Len(p) :
          /\ i <= Len(q) /\ p[i] < q[i]
          /\ \A j \in 1..(i - 1) : p[j] = q[j]

\* C9: the list scan_dirs returns holds every reachable directory (the root,
\* and directories behind symbolic links, included) with a file of one of the
\* four names, nothing else, each path once, in the order of the walk.
C9_ScanDirs ==
    pc = "scanned" =>
       /\ \A p \in Paths(fs) : HoldsComposeFile(fs, p) => InList(p, docker_compose_dirs)
       /\ \A i \in 1..Len(docker_compose_dirs) :
             /\ docker_compose_dirs[i] \in Paths(fs)
             /\ HoldsComposeFile(fs, docker_compose_dirs[i])
       /\ \A i, j \in 1..Len(docker_compose_dirs) :
             i < j => /\ docker_compose_dirs[i] # docker_compose_dirs[j]
                      /\ VisitedBefore(docker_compose_dirs[i], docker_compose_dirs[j])

\* a directory with two of the file names, found at its own path and behind a
\* symbolic link
C9_Witness ==
    /\ pc = "scanned" /\ Len(docker_compose_dirs) = 2
    /\ \E i \in 1..2 :
          LET p == docker_compose_dirs[i]
          IN /\ p # << >> /\ fs.link[p[Len(p)]] # 0
             /\ Cardinality(fs.files[DirAt(fs, p)] \cap DOCKER_COMPOSE_FILENAME_SET) = 2

\* C10 (state part): no command is executed twice in a directory; every
\* directory has at most one entry in the error list, that of its first
\* failing command; the entries are as many as the directories that failed,
\* and no more than the discovered directories.
C10_Inv ==
    /\ \A i, j \in 1..Len(trace) :
          (i < j /\ trace[i].op = "exec" /\ trace[j].op = "exec") =>
             ~(trace[i].k = trace[j].k /\ trace[i].dir = trace[j].dir)
    /\ \A i, j \in 1..Len(error_info_list) :
          i < j => error_info_list[i].dir # error_info_list[j].dir
    /\ \A i \in 1..Len(error_info_list) :
          \E h \in 1..Len(trace) :
             /\ Failed(trace[h])
             /\ error_info_list[i] = ErrorInfo(trace[h].dir, trace[h].cmd, trace[h].rc)
             /\ \A g \in 1..(h - 1) : ~(Failed(trace[g]) /\ trace[g].dir = trace[h].dir)
    /\ Len(error_info_list) =
          Cardinality({trace[h].dir : h \in {g \in 1..Len(trace) : Failed(trace[g])}})
    /\ Len(error_info_list) <= Len(docker_compose_dirs)

\* C10: there are no retries and failures are tracked per directory (C10_Inv
\* in every state), and a step of the run only ever appends to the error list.
C10_NoRetries ==
    [](C10_Inv) /\ [][IsPrefix(error_info_list, error_info_list')]_vars

\* both directories failed, the first at once, and were skipped afterwards
C10_Witness ==
    /\ pc = "exited" /\ Len(error_info_list) = 2
    /\ \E i, j \in 1..Len(trace) :
          /\ i < j /\ Failed(trace[i]) /\ trace[j].op = "skip"
          /\ trace[i].dir = trace[j].dir /\ trace[i].k = 1 /\ trace[j].k = 5

====
